---- MODULE Spec2Model ----
(***************************************************************************)
(* Model of scripts/arc/run_atlite_to_zarr.py: the latitude tiling          *)
(* (build_latitude_slices) and the tile-by-tile driver (main) that writes   *)
(* the first tile of a run in mode "w" and appends the others to the Zarr   *)
(* store.  Latitudes are integers; lat-step-deg is a number of halves of a  *)
(* latitude unit, so that the rounding of step / cell_height is exercised.  *)
(***************************************************************************)
EXTENDS Integers, Sequences, FiniteSets, TLC

VARIABLES
    Y,                  \* cutout.data.coords["y"].values
    lat_tiles,          \* args.lat_tiles
    lat_rows_per_tile,  \* args.lat_rows_per_tile
    lat_step_deg,       \* args.lat_step_deg: <<>> is None, <<s>> is s/2 degrees
    cutout_exists,      \* Path(args.cutout).exists()
    overwrite,          \* args.overwrite
    skip_prepare,       \* args.skip_prepare
    prepare_per_tile,   \* args.prepare_per_tile
    tile_start_index,   \* args.tile_start_index
    tile_count,         \* args.tile_count
    store,              \* the destination path: the Zarr store on disk
    store_before,       \* the destination as it was when the run started
    run,                \* number of the current invocation of the script
    pc,                 \* position of the invocation in main / __main__
    partition,          \* lat_slices as returned by build_latitude_slices
    total_tiles,        \* total_tiles
    lat_slices,         \* lat_slices after the selection of lines 239-241
    local_idx,          \* local_idx of the tile being processed
    trace,              \* what the invocation has done so far, in order
    error,              \* the exception main raised, "none" if it did not
    diagnostics,        \* number of "ERROR: ..." lines printed
    exit_status         \* -1 while running, 0 success, 1 sys.exit(1)

vars == <<Y, lat_tiles, lat_rows_per_tile, lat_step_deg, cutout_exists,
          overwrite, skip_prepare, prepare_per_tile, tile_start_index,
          tile_count, store, store_before, run, pc, partition, total_tiles,
          lat_slices, local_idx, trace, error, diagnostics, exit_status>>

tiling == <<Y, lat_tiles, lat_rows_per_tile, lat_step_deg>>
runargs == <<cutout_exists, overwrite, skip_prepare, prepare_per_tile,
             tile_start_index, tile_count>>

(***************************************************************************)
(* Bounds of the model.                                                     *)
(***************************************************************************)
MaxRows == 6          \* the grids have at most this many latitude rows
MaxTiles == 3         \* --lat-tiles ranges over 0..MaxTiles
MaxRowsPerTile == 3   \* --lat-rows-per-tile ranges over 0..MaxRowsPerTile
MaxStep == 5          \* --lat-step-deg ranges over -1/2 .. MaxStep/2
MaxStart == 3         \* --tile-start-index ranges over -1..MaxStart
MaxCount == 2         \* --tile-count ranges over -1..MaxCount
MaxRuns == 2          \* invocations of the script on the same destination

DEFAULT_LAT_TILES == 1
DEFAULT_LAT_ROWS == 0

Min(a, b) == IF a < b THEN a ELSE b
Max(a, b) == IF a > b THEN a ELSE b

YValues == 5..(4 + MaxRows)

\* the strictly increasing sequences over a set of latitudes
RECURSIVE SortedSeq(_)
SortedSeq(S) ==
    IF S = {} THEN <<>>
    ELSE LET m == CHOOSE x \in S : \A z \in S : x <= z
         IN  <<m>> \o SortedSeq(S \ {m})

\* the uniform grid 5, 6, ..., 4 + n
UniformGrid(n) == [i \in 1..n |-> 4 + i]

NoStep == <<>>
StepChoices == {NoStep} \cup {<<s>> : s \in (-1)..MaxStep}

(***************************************************************************)
(* build_latitude_slices                                                    *)
(***************************************************************************)
\* Python's round() of the non-negative rational num / den: half to even
RoundHalfEven(num, den) ==
    LET q == num \div den
        r == num % den
    IN  IF 2 * r < den THEN q
        ELSE IF 2 * r > den THEN q + 1
        ELSE IF q % 2 = 0 THEN q ELSE q + 1

Abs(x) == IF x < 0 THEN -x ELSE x

\* windows that end one row late: chunk = y[start : start + rows + 1]
RowWindows_OneRowLate(y, effective_rows) ==
    LET n == Len(y)
        cnt == (n + effective_rows - 1) \div effective_rows
    IN  [i \in 1..cnt |->
            <<y[(i - 1) * effective_rows + 1],
              y[Min(i * effective_rows + 1, n)]>>]

\* lines 180-185: windows of effective_rows rows, the last may be shorter
RowWindows(y, effective_rows) ==
    LET n == Len(y)
        cnt == (n + effective_rows - 1) \div effective_rows
    IN  [i \in 1..cnt |->
            <<y[(i - 1) * effective_rows + 1],
              y[Min(i * effective_rows, n)]>>]

\* array_split without the offset of the longer chunks: chunks overlap and
\* the last rows are left out
ArraySplit_IgnoresExtras(y, sections) ==
    LET n == Len(y)
        q == n \div sections
        r == n % sections
    IN  [i \in 1..sections |->
            LET first == (i - 1) * q + 1
                size  == q + (IF i <= r THEN 1 ELSE 0)
            IN  <<first, first + size - 1>>]

\* the longer chunks put last instead of first
ArraySplit_ExtrasLast(y, sections) ==
    LET n == Len(y)
        q == n \div sections
        r == n % sections
    IN  [i \in 1..sections |->
            LET first == (i - 1) * q + Max(0, i - 1 - (sections - r)) + 1
                size  == q + (IF i > sections - r THEN 1 ELSE 0)
            IN  <<first, first + size - 1>>]

\* np.array_split(y, sections): the first Len(y) % sections chunks have one
\* row more than the others; chunk i as the pair <<first row, last row>>
\* of indices into y (first > last when the chunk is empty)
ArraySplit(y, sections) ==
    LET n == Len(y)
        q == n \div sections
        r == n % sections
    IN  [i \in 1..sections |->
            LET first == (i - 1) * q + Min(i - 1, r) + 1
                size  == q + (IF i <= r THEN 1 ELSE 0)
            IN  <<first, first + size - 1>>]

\* lines 190-196: the bounds of the non-empty chunks, in order
RECURSIVE ChunkBounds(_, _, _)
ChunkBounds(y, chunks, i) ==
    IF i > Len(chunks) THEN <<>>
    ELSE IF chunks[i][1] > chunks[i][2] THEN ChunkBounds(y, chunks, i + 1)
    ELSE <<<<y[chunks[i][1]], y[chunks[i][2]]>>>>
             \o ChunkBounds(y, chunks, i + 1)

Result(e, s) == [err |-> e, slices |-> s]

\* the step used only when no row count was given
EffectiveRows_RowsFirst(y, rows_per_tile, step_deg) ==
    IF rows_per_tile > 0 THEN rows_per_tile
    ELSE IF step_deg = NoStep THEN 0
    ELSE IF step_deg[1] <= 0 THEN -1
    ELSE IF Len(y) = 1 THEN 1
    ELSE LET cell_height == Abs(y[2] - y[1])
         IN  IF cell_height = 0 THEN -2
             ELSE Max(1, RoundHalfEven(step_deg[1], 2 * cell_height))

\* the cell height taken over the whole span of y
EffectiveRows_SpanAsCell(y, rows_per_tile, step_deg) ==
    IF step_deg = NoStep
    THEN (IF rows_per_tile > 0 THEN rows_per_tile ELSE 0)
    ELSE IF step_deg[1] <= 0 THEN -1
    ELSE IF Len(y) = 1 THEN 1
    ELSE LET cell_height == Abs(y[Len(y)] - y[1])
         IN  IF cell_height = 0 THEN -2
             ELSE Max(1, RoundHalfEven(step_deg[1], 2 * cell_height))

\* lines 168-178: effective_rows, or -1 / -2 for the two ValueErrors
EffectiveRows(y, rows_per_tile, step_deg) ==
    IF step_deg = NoStep
    THEN (IF rows_per_tile > 0 THEN rows_per_tile ELSE 0)
    ELSE IF step_deg[1] <= 0 THEN -1
    ELSE IF Len(y) = 1 THEN 1
    ELSE LET cell_height == Abs(y[2] - y[1])
         IN  IF cell_height = 0 THEN -2
             ELSE Max(1, RoundHalfEven(step_deg[1], 2 * cell_height))

build_latitude_slices(y, tile_cnt, rows_per_tile, step_deg) ==
    IF Len(y) = 0 THEN Result("none", <<>>)
    ELSE LET effective_rows == EffectiveRows(y, rows_per_tile, step_deg)
         IN  IF effective_rows = -1
             THEN Result("lat-step-deg must be > 0", <<>>)
             ELSE IF effective_rows = -2
             THEN Result("Cannot infer latitude resolution", <<>>)
             ELSE IF effective_rows > 0
             THEN Result("none", RowWindows(y, effective_rows))
             ELSE IF tile_cnt < 1
             THEN Result("lat-tiles must be >= 1", <<>>)
             ELSE Result("none",
                         ChunkBounds(y, ArraySplit(y, tile_cnt), 1))

(***************************************************************************)
(* The destination and the record of what a run does                        *)
(***************************************************************************)
NoTile == <<0, 0>>
Absent == [exists |-> FALSE, tiles |-> <<>>, consolidated |-> FALSE]
\* a destination left by something else than the runs of the model
OldStore == [exists |-> TRUE,
             tiles |-> <<[run |-> 0, tile |-> NoTile]>>,
             consolidated |-> TRUE]

Event(e, m, l, g, t) == [ev |-> e, mode |-> m, local |-> l, g |-> g, tile |-> t]
Did(e) == Event(e, "", 0, 0, NoTile)

\* the overwrite flag without the removal
RmTree_KeepsStore(st) == st

\* shutil.rmtree(output_path)
RmTree(st) == Absent

\* dataset.to_zarr(output_path, mode=..., consolidated=False[, append_dim="y"])
ToZarr(st, mode, entry) ==
    IF mode = "w" \/ ~st.exists
    THEN [exists |-> TRUE, tiles |-> <<entry>>, consolidated |-> FALSE]
    ELSE [st EXCEPT !.tiles = Append(st.tiles, entry)]

\* zarr.consolidate_metadata(str(output_path))
ConsolidateMetadata(st) == [st EXCEPT !.consolidated = TRUE]

\* every tile written in mode "w"
WriteMode_AlwaysCreate(l) == "w"

\* line 278
WriteMode(l) == IF l = 1 THEN "w" ELSE "a"

\* lat_slices[start_idx + 1:]
SelectSlices_SkipsOne(slices, start_idx, cnt) ==
    LET rest == SubSeq(slices, start_idx + 2, Len(slices))
    IN  IF cnt > 0 THEN SubSeq(rest, 1, Min(cnt, Len(rest))) ELSE rest

\* a tile count of 0 or less taken as "no tiles" instead of "no limit"
SelectSlices_CountAsLimit(slices, start_idx, cnt) ==
    LET rest == SubSeq(slices, start_idx + 1, Len(slices))
    IN  SubSeq(rest, 1, Min(Max(cnt, 0), Len(rest)))

\* lines 239-241
SelectSlices(slices, start_idx, cnt) ==
    LET rest == SubSeq(slices, start_idx + 1, Len(slices))
    IN  IF cnt > 0 THEN SubSeq(rest, 1, Min(cnt, Len(rest))) ELSE rest

\* start_idx > total_tiles instead of >=
StartIndexValid_AllowsEnd(start_idx, total) ==
    ~(start_idx < 0 \/ start_idx > total)

\* line 236
StartIndexValid(start_idx, total) == ~(start_idx < 0 \/ start_idx >= total)

\* the absolute zero-based index printed as the position in the partition
GlobalIdx_ZeroBased(global_offset, l) == global_offset + l - 1

\* line 252: global_idx, with global_offset = start_idx (line 248)
GlobalIdx(global_offset, l) == global_offset + l

\* per-tile preparation although --skip-prepare is given
PrepareEachTile_IgnoresSkip == prepare_per_tile

\* line 250
PrepareEachTile == prepare_per_tile /\ ~skip_prepare

(***************************************************************************)
(* Initial states.  The state is the one after parse_args (line 200) of the *)
(* first invocation: a cutout, the arguments, and a destination that is     *)
(* absent or holds something older.                                         *)
(***************************************************************************)
\* every grid of at most MaxRows rows over YValues
AllGrids == {SortedSeq(S) : S \in SUBSET YValues}
\* the grids of the runs: uniform, with at most MaxTiles rows
RunGrids == {UniformGrid(n) : n \in 0..MaxTiles}

\* every combination of the three tiling arguments
AllTilings == (0..MaxTiles) \X (0..MaxRowsPerTile) \X StepChoices
\* the tiling arguments of the runs: each policy with the others at their
\* defaults (one row per tile; a step of 0 and a step of one degree)
RunTilings ==
    {<<t, DEFAULT_LAT_ROWS, NoStep>> : t \in 0..MaxTiles}
        \cup {<<DEFAULT_LAT_TILES, 1, NoStep>>}
        \cup {<<DEFAULT_LAT_TILES, DEFAULT_LAT_ROWS, <<s>>>> : s \in {0, 2}}

Starts == (-1)..MaxStart
Counts == (-1)..MaxCount

\* nothing of main has run yet
Fresh ==
    /\ partition = <<>>
    /\ total_tiles = 0
    /\ lat_slices = <<>>
    /\ local_idx = 0
    /\ trace = <<>>
    /\ error = "none"
    /\ diagnostics = 0
    /\ exit_status = -1

Init ==
    /\ Y \in RunGrids
    /\ \E t \in RunTilings :
          /\ lat_tiles = t[1]
          /\ lat_rows_per_tile = t[2]
          /\ lat_step_deg = t[3]
    /\ cutout_exists \in BOOLEAN
    /\ overwrite \in BOOLEAN
    /\ skip_prepare \in BOOLEAN
    /\ prepare_per_tile \in BOOLEAN
    /\ tile_start_index \in Starts
    /\ tile_count \in Counts
    /\ store \in {Absent, OldStore}
    /\ store_before = store
    /\ run = 1
    /\ pc = "start"
    /\ Fresh

(***************************************************************************)
(* main, lines 199-287, and the handler of lines 290-295                    *)
(***************************************************************************)
\* lines 202-218: check the cutout, prepare it unless told otherwise
Begin ==
    /\ pc = "start"
    /\ IF ~cutout_exists
       THEN /\ error' = "FileNotFoundError"
            /\ pc' = "raised"
            /\ UNCHANGED trace
       ELSE /\ trace' = (IF skip_prepare \/ prepare_per_tile
                         THEN trace
                         ELSE Append(trace, Did("prepare_global")))
            /\ pc' = "output"
            /\ UNCHANGED error
    /\ UNCHANGED <<tiling, runargs, store, store_before, run, partition,
                   total_tiles, lat_slices, local_idx, diagnostics,
                   exit_status>>

\* no check of the destination at all
ResolveOutput_NoCheck ==
    /\ pc = "output"
    /\ pc' = "partition"
    /\ UNCHANGED <<tiling, runargs, store, store_before, run, partition,
                   total_tiles, lat_slices, local_idx, trace, error,
                   diagnostics, exit_status>>

\* lines 220-227: the destination exists: remove it or fail
ResolveOutput ==
    /\ pc = "output"
    /\ IF store.exists
       THEN IF overwrite
            THEN /\ store' = RmTree(store)
                 /\ trace' = Append(trace, Did("rmtree"))
                 /\ pc' = "partition"
                 /\ UNCHANGED error
            ELSE /\ error' = "FileExistsError"
                 /\ pc' = "raised"
                 /\ UNCHANGED <<store, trace>>
       ELSE /\ pc' = "partition"
            /\ UNCHANGED <<store, trace, error>>
    /\ UNCHANGED <<tiling, runargs, store_before, run, partition, total_tiles,
                   lat_slices, local_idx, diagnostics, exit_status>>

\* lines 229-233: the full partition; nothing to do when it is empty
Partition ==
    /\ pc = "partition"
    /\ LET res == build_latitude_slices(Y, lat_tiles, lat_rows_per_tile,
                                        lat_step_deg)
       IN  IF res.err # "none"
           THEN /\ error' = res.err
                /\ pc' = "raised"
                /\ UNCHANGED <<partition, total_tiles, trace>>
           ELSE /\ partition' = res.slices
                /\ total_tiles' = Len(res.slices)
                /\ IF Len(res.slices) = 0
                   THEN /\ trace' = Append(trace, Did("no_tiles_detected"))
                        /\ pc' = "returned"
                   ELSE /\ pc' = "select"
                        /\ UNCHANGED trace
                /\ UNCHANGED error
    /\ UNCHANGED <<tiling, runargs, store, store_before, run, lat_slices,
                   local_idx, diagnostics, exit_status>>

\* lines 235-250: validate the start index, select the tiles, build the mask
Select ==
    /\ pc = "select"
    /\ IF ~StartIndexValid(tile_start_index, total_tiles)
       THEN /\ error' = "tile-start-index is outside"
            /\ pc' = "raised"
            /\ UNCHANGED <<lat_slices, trace>>
       ELSE /\ lat_slices' = SelectSlices(partition, tile_start_index, tile_count)
            /\ IF Len(lat_slices') = 0
               THEN /\ trace' = Append(trace, Did("zero_selection"))
                    /\ pc' = "returned"
               ELSE /\ trace' = Append(trace, Did("mask"))
                    /\ pc' = "loop"
            /\ UNCHANGED error
    /\ UNCHANGED <<tiling, runargs, store, store_before, run, partition,
                   total_tiles, local_idx, diagnostics, exit_status>>

\* a loop body that catches the exception of a tile and goes on with the
\* next tile
Transform_ContinuesOnError ==
    /\ pc = "loop"
    /\ local_idx < Len(lat_slices)
    /\ local_idx' = local_idx + 1
    /\ LET l == local_idx + 1
           progress == Event("progress", "", l, GlobalIdx(tile_start_index, l),
                             lat_slices[l])
       IN  \E raises \in BOOLEAN :
              IF raises
              THEN /\ trace' = Append(trace, progress)
                   /\ error' = "transform"
                   /\ pc' = "loop"
              ELSE /\ trace' = Append(trace, progress)
                                  \o <<Event("transform", "", l, 0, lat_slices[l])>>
                   /\ pc' = "write"
                   /\ UNCHANGED error
    /\ UNCHANGED <<tiling, runargs, store, store_before, run, partition,
                   total_tiles, lat_slices, diagnostics, exit_status>>

\* lines 251-276: the next tile of the selection: progress line, optional
\* preparation, capacity factors, dataset.  Any of the calls may raise.
Transform ==
    /\ pc = "loop"
    /\ local_idx < Len(lat_slices)
    /\ local_idx' = local_idx + 1
    /\ LET l == local_idx + 1
           progress == Event("progress", "", l, GlobalIdx(tile_start_index, l),
                             lat_slices[l])
           prep == IF PrepareEachTile
                   THEN <<Event("prepare_tile", "", l, 0, lat_slices[l])>>
                   ELSE <<>>
       IN  \E raises \in BOOLEAN :
              IF raises
              THEN /\ trace' = Append(trace, progress)
                   /\ error' = "transform"
                   /\ pc' = "raised"
              ELSE /\ trace' = (Append(trace, progress) \o prep)
                                  \o <<Event("transform", "", l, 0, lat_slices[l])>>
                   /\ pc' = "write"
                   /\ UNCHANGED error
    /\ UNCHANGED <<tiling, runargs, store, store_before, run, partition,
                   total_tiles, lat_slices, diagnostics, exit_status>>

\* lines 278-285: write the dataset, "w" for the first tile of the run and
\* "a" along y for the others.  A write that raises leaves the store as the
\* last completed append left it.
Write ==
    /\ pc = "write"
    /\ LET mode == WriteMode(local_idx)
           entry == [run |-> run, tile |-> lat_slices[local_idx]]
       IN  \E raises \in BOOLEAN :
              IF raises
              THEN /\ error' = "write"
                   /\ pc' = "raised"
                   /\ UNCHANGED <<store, trace>>
              ELSE /\ store' = ToZarr(store, mode, entry)
                   /\ trace' = Append(trace, Event("write", mode, local_idx, 0,
                                                    lat_slices[local_idx]))
                   /\ pc' = "loop"
                   /\ UNCHANGED error
    /\ UNCHANGED <<tiling, runargs, store_before, run, partition, total_tiles,
                   lat_slices, local_idx, diagnostics, exit_status>>

\* the consolidation inside the loop, ending the run after the tile
Consolidate_AfterAnyTile ==
    /\ pc = "loop"
    /\ local_idx >= 1
    /\ store' = ConsolidateMetadata(store)
    /\ trace' = Append(trace, Did("consolidate"))
    /\ pc' = "returned"
    /\ UNCHANGED <<tiling, runargs, store_before, run, partition, total_tiles,
                   lat_slices, local_idx, error, diagnostics, exit_status>>

\* line 287: after the loop
Consolidate ==
    /\ pc = "loop"
    /\ local_idx = Len(lat_slices)
    /\ store' = ConsolidateMetadata(store)
    /\ trace' = Append(trace, Did("consolidate"))
    /\ pc' = "returned"
    /\ UNCHANGED <<tiling, runargs, store_before, run, partition, total_tiles,
                   lat_slices, local_idx, error, diagnostics, exit_status>>

\* lines 290-292: main returned
ExitSuccess ==
    /\ pc = "returned"
    /\ pc' = "exited"
    /\ exit_status' = 0
    /\ UNCHANGED <<tiling, runargs, store, store_before, run, partition,
                   total_tiles, lat_slices, local_idx, trace, error,
                   diagnostics>>

\* the diagnostic without sys.exit(1)
ExitError_WithoutStatus ==
    /\ pc = "raised"
    /\ pc' = "exited"
    /\ diagnostics' = diagnostics + 1
    /\ exit_status' = 0
    /\ UNCHANGED <<tiling, runargs, store, store_before, run, partition,
                   total_tiles, lat_slices, local_idx, trace, error>>

\* lines 293-295: main raised: one "ERROR: ..." line and sys.exit(1)
ExitError ==
    /\ pc = "raised"
    /\ pc' = "exited"
    /\ diagnostics' = diagnostics + 1
    /\ exit_status' = 1
    /\ UNCHANGED <<tiling, runargs, store, store_before, run, partition,
                   total_tiles, lat_slices, local_idx, trace, error>>

Next ==
    \/ Begin
    \/ ResolveOutput
    \/ Partition
    \/ Select
    \/ Transform
    \/ Write
    \/ Consolidate
    \/ ExitSuccess
    \/ ExitError

\* one invocation of the script
Spec == Init /\ [][Next]_vars

(***************************************************************************)
(* build_latitude_slices alone: main at line 229, on every grid and every   *)
(* combination of the tiling arguments                                      *)
(***************************************************************************)
InitSlices ==
    /\ Y \in AllGrids
    /\ \E t \in AllTilings :
          /\ lat_tiles = t[1]
          /\ lat_rows_per_tile = t[2]
          /\ lat_step_deg = t[3]
    /\ cutout_exists = TRUE
    /\ overwrite = FALSE
    /\ skip_prepare = TRUE
    /\ prepare_per_tile = FALSE
    /\ tile_start_index = 0
    /\ tile_count = 0
    /\ store = Absent
    /\ store_before = store
    /\ run = 1
    /\ pc = "partition"
    /\ Fresh

NextSlices == Partition

SpecSlices == InitSlices /\ [][NextSlices]_vars

(***************************************************************************)
(* Two invocations on the same destination, same cutout and same tiling:    *)
(* the second one is started when the first has exited, with its own        *)
(* overwrite flag and run selection (parse_args, line 200).                 *)
(***************************************************************************)
InitResume ==
    /\ Init
    /\ cutout_exists
    /\ ~skip_prepare
    /\ ~prepare_per_tile

Reinvoke ==
    /\ pc = "exited"
    /\ run < MaxRuns
    /\ run' = run + 1
    /\ overwrite' \in BOOLEAN
    /\ tile_start_index' \in Starts
    /\ tile_count' \in Counts
    /\ store_before' = store
    /\ pc' = "start"
    /\ partition' = <<>>
    /\ total_tiles' = 0
    /\ lat_slices' = <<>>
    /\ local_idx' = 0
    /\ trace' = <<>>
    /\ error' = "none"
    /\ diagnostics' = 0
    /\ exit_status' = -1
    /\ UNCHANGED <<tiling, cutout_exists, skip_prepare, prepare_per_tile, store>>

NextResume ==
    \/ Next
    \/ Reinvoke

SpecResume == InitResume /\ [][NextResume]_vars

(***************************************************************************)
(* Vocabulary of the properties                                             *)
(***************************************************************************)
Sel(e) == SelectSeq(trace, LAMBDA x : x.ev = e)
Writes == Sel("write")
Happened(e) == \E i \in DOMAIN trace : trace[i].ev = e
TileEvents == {"progress", "prepare_tile", "transform", "write"}
NoTileProcessed == \A i \in DOMAIN trace : trace[i].ev \notin TileEvents
StoreTiles(st) == [i \in 1..Len(st.tiles) |-> st.tiles[i].tile]
WrittenBy(st, r) == \A i \in DOMAIN st.tiles : st.tiles[i].run = r
FullPartition ==
    build_latitude_slices(Y, lat_tiles, lat_rows_per_tile, lat_step_deg)
ConfigErrors == {"tile-start-index is outside", "lat-step-deg must be > 0",
                 "lat-tiles must be >= 1"}
TileErrors == {"transform", "write"}
Exited == pc = "exited"
\* the number of rows of y inside the interval of a tile
RowsIn(y, tile) ==
    Cardinality({j \in DOMAIN y : tile[1] <= y[j] /\ y[j] <= tile[2]})

(***************************************************************************)
(* C1                                                                       *)
(***************************************************************************)
\* the destination the run started on is what a successful first invocation
\* with tile-start-index 0 and tile-count k leaves
C1_FirstRunWroteFirst(k) ==
    /\ store_before.exists
    /\ store_before.consolidated
    /\ WrittenBy(store_before, 1)
    /\ StoreTiles(store_before) = SubSeq(FullPartition.slices, 1, k)

\* C1: for a partition of n tiles and 0 < k < n, a first invocation with
\* tile-start-index 0 and tile-count k followed by a second invocation on the
\* same destination, without the overwrite flag, with tile-start-index k
\* leaves a store whose tiles are those of one invocation over tiles 0..n-1.
C1_SplitRunEqualsSingleRun ==
    \A k \in 1..(Len(FullPartition.slices) - 1) :
        ( /\ run = 2
          /\ Exited
          /\ C1_FirstRunWroteFirst(k)
          /\ ~overwrite
          /\ tile_start_index = k
          /\ tile_count <= 0
          /\ error \notin TileErrors )
        => StoreTiles(store) = FullPartition.slices

(***************************************************************************)
(* C2                                                                       *)
(***************************************************************************)
\* C2: if the transform or the write of the j-th selected tile raises, no
\* later tile is transformed or written, nothing is consolidated, and the
\* store holds exactly the j-1 tiles of this run written before, in order,
\* and nothing of the failing tile.
C2_FailingTileAbortsRun ==
    error \in TileErrors =>
        LET j == local_idx
        IN  /\ pc \in {"raised", "exited"}
            /\ StoreTiles(store) = SubSeq(lat_slices, 1, j - 1)
            /\ WrittenBy(store, run)
            /\ store.exists = (j > 1)
            /\ ~store.consolidated
            /\ ~Happened("consolidate")
            /\ Len(Writes) = j - 1
            /\ Len(Sel("transform")) = (IF error = "transform" THEN j - 1 ELSE j)
            /\ \A i \in DOMAIN trace : trace[i].local <= j
            /\ \A i \in DOMAIN store.tiles : store.tiles[i].tile # lat_slices[j]

\* the third tile of a run failed after two tiles were appended
C2_Witness ==
    /\ Exited
    /\ error = "transform"
    /\ local_idx = 3
    /\ Len(store.tiles) = 2

(***************************************************************************)
(* C3                                                                       *)
(***************************************************************************)
\* C3: whenever a run ends with a configuration error, no tile has been
\* processed and the destination is exactly as it was before the run, for
\* every combination of the overwrite flag and prior existence.
C3_ConfigErrorLeavesDestination ==
    (Exited /\ error \in ConfigErrors) =>
        /\ NoTileProcessed
        /\ store = store_before

(***************************************************************************)
(* C4                                                                       *)
(***************************************************************************)
\* C4: when the destination exists at the start of a run: without the
\* overwrite flag the run fails before any tile is transformed or written
\* and the destination is unchanged; with the flag the destination is
\* removed, once, before the first tile is processed, and nothing of the old
\* content is in the store afterwards.  The check is made once, not per tile.
C4_ExistingDestination ==
    /\ (store_before.exists /\ ~overwrite) =>
          /\ store = store_before
          /\ NoTileProcessed
          /\ pc \notin {"partition", "select", "loop", "write", "returned"}
          /\ Exited => (exit_status = 1 /\ error \in {"FileExistsError",
                                                      "FileNotFoundError"})
    /\ (store_before.exists /\ overwrite) =>
          /\ Len(Sel("rmtree")) <= 1
          /\ pc \in {"partition", "select", "loop", "write", "returned"}
                => Happened("rmtree")
          /\ \A i \in DOMAIN trace :
                trace[i].ev \in TileEvents
                    => \E k \in 1..(i - 1) : trace[k].ev = "rmtree"
          /\ Happened("rmtree") => WrittenBy(store, run)
    /\ error = "FileExistsError" => (NoTileProcessed /\ ~overwrite)

\* an existing destination was overwritten by a run that wrote two tiles
C4_Witness ==
    /\ Exited
    /\ exit_status = 0
    /\ store_before = OldStore
    /\ overwrite
    /\ Len(store.tiles) = 2
    /\ WrittenBy(store, run)

(***************************************************************************)
(* C5                                                                       *)
(***************************************************************************)
\* a run that reaches line 235 with tile-start-index equal to the number of
\* tiles of a partition that has tiles
C5_StartAtEnd ==
    /\ Exited
    /\ cutout_exists
    /\ store_before.exists => overwrite
    /\ FullPartition.err = "none"
    /\ Len(FullPartition.slices) >= 1
    /\ tile_start_index = Len(FullPartition.slices)

\* C5 as claimed: a run whose tile-start-index equals the number of tiles
\* reports zero tiles, makes no store mutation and exits successfully.
C5_StartAtEndIsEmptySuccess ==
    C5_StartAtEnd =>
        /\ exit_status = 0
        /\ Happened("zero_selection")
        /\ store = store_before

\* C5 as amended: a run whose tile-start-index equals the number T >= 1 of
\* tiles fails with the tile-start-index configuration error (one
\* diagnostic, exit status 1), does not report zero tiles, builds no mask and
\* processes and writes no tile; the destination is as it was, or removed if
\* it existed and the overwrite flag is set.
C5_StartAtEndIsConfigError ==
    C5_StartAtEnd =>
        /\ error = "tile-start-index is outside"
        /\ exit_status = 1
        /\ diagnostics = 1
        /\ ~Happened("zero_selection")
        /\ ~Happened("mask")
        /\ NoTileProcessed
        /\ store = (IF store_before.exists THEN Absent ELSE store_before)

C5_Witness ==
    /\ C5_StartAtEnd
    /\ total_tiles = 2
    /\ tile_start_index = 2
    /\ exit_status = 1

(***************************************************************************)
(* C6                                                                       *)
(***************************************************************************)
\* C6: on a grid with an empty Y the partition is empty for every tiling
\* argument, and the run ends successfully with no tile processed, no mask,
\* no consolidation and no mutation of the destination, also when the
\* destination existed and the overwrite flag is set.
C6_EmptyGridChangesNothing ==
    ( /\ Exited
      /\ Len(Y) = 0
      /\ cutout_exists
      /\ store_before.exists => overwrite )
    =>  /\ FullPartition = Result("none", <<>>)
        /\ exit_status = 0
        /\ NoTileProcessed
        /\ ~Happened("mask")
        /\ ~Happened("consolidate")
        /\ store = store_before

(***************************************************************************)
(* C7                                                                       *)
(***************************************************************************)
\* C7: the i-th write of a run is the tile at absolute index
\* tile-start-index + i - 1 of the full partition, each written tile lies
\* strictly above the one written before, and a run that completes has
\* written every selected tile once.
C7_WritesInIncreasingOrder ==
    /\ \A i \in DOMAIN Writes :
          /\ Writes[i].local = i
          /\ tile_start_index + i <= Len(partition)
          /\ Writes[i].tile = partition[tile_start_index + i]
          /\ i > 1 => Writes[i].tile[1] > Writes[i - 1].tile[2]
    /\ StoreTiles(store) = [i \in DOMAIN Writes |-> Writes[i].tile]
          \/ Writes = <<>>
    /\ Happened("consolidate") =>
          Len(Writes) = (IF tile_count > 0
                         THEN Min(tile_count, total_tiles - tile_start_index)
                         ELSE total_tiles - tile_start_index)

\* a run that started at tile 1 of three and wrote tiles 1 and 2
C7_Witness ==
    /\ Exited
    /\ exit_status = 0
    /\ tile_start_index = 1
    /\ total_tiles = 3
    /\ Len(Writes) = 2

(***************************************************************************)
(* C8                                                                       *)
(***************************************************************************)
\* C8: the first tile written in a run is written in mode "w", every later
\* one in mode "a" onto the tiles already in the store, and no "w" write
\* follows an "a" write of the same run.
C8_CreateThenAppend ==
    /\ \A i \in DOMAIN Writes :
          /\ Writes[i].mode = (IF i = 1 THEN "w" ELSE "a")
          /\ \A k \in 1..(i - 1) : ~(Writes[k].mode = "a" /\ Writes[i].mode = "w")
    /\ Writes # <<>> => Len(store.tiles) = Len(Writes)

\* a run that created the store and appended twice
C8_Witness ==
    /\ Len(Writes) = 3
    /\ Writes[1].mode = "w"
    /\ Writes[3].mode = "a"
    /\ Len(store.tiles) = 3

(***************************************************************************)
(* C9                                                                       *)
(***************************************************************************)
\* build_latitude_slices has returned under the fixed-count policy
C9_FixedCount ==
    /\ pc # "partition"
    /\ Len(Y) > 0
    /\ lat_tiles >= 1
    /\ lat_rows_per_tile <= 0
    /\ lat_step_deg = NoStep

C10_RowsPerTile ==
    /\ pc # "partition"
    /\ lat_rows_per_tile > 0
    /\ lat_step_deg = NoStep

RECURSIVE SumRows(_, _, _)
SumRows(y, tiles, i) ==
    IF i > Len(tiles) THEN 0
    ELSE RowsIn(y, tiles[i]) + SumRows(y, tiles, i + 1)

\* C10: with lat-rows-per-tile = k > 0 and no step, every tile but the last
\* spans exactly k rows of Y, the last one between 1 and k, and the row
\* counts sum to len(Y); Y = [5..10] with k = 2 gives [(5,6),(7,8),(9,10)].
C10_RowsPerTileWindows ==
    /\ C10_RowsPerTile =>
          /\ error = "none"
          /\ \A i \in DOMAIN partition :
                IF i < Len(partition)
                THEN RowsIn(Y, partition[i]) = lat_rows_per_tile
                ELSE /\ 1 <= RowsIn(Y, partition[i])
                     /\ RowsIn(Y, partition[i]) <= lat_rows_per_tile
          /\ SumRows(Y, partition, 1) = Len(Y)
    /\ build_latitude_slices(<<5, 6, 7, 8, 9, 10>>, DEFAULT_LAT_TILES, 2, NoStep)
          = Result("none", <<<<5, 6>>, <<7, 8>>, <<9, 10>>>>)

C10_Witness ==
    /\ C10_RowsPerTile
    /\ Y = <<5, 6, 7, 8, 9, 10>>
    /\ lat_rows_per_tile = 2
    /\ partition = <<<<5, 6>>, <<7, 8>>, <<9, 10>>>>

(***************************************************************************)
(* C11                                                                      *)
(***************************************************************************)
\* build_latitude_slices has returned on a non-empty grid with both a row
\* count and a positive step
C11_RowsAndStep ==
    /\ pc # "partition"
    /\ Len(Y) > 0
    /\ lat_rows_per_tile > 0
    /\ lat_step_deg # NoStep
    /\ lat_step_deg[1] > 0

Uniform(y, d) == \A i \in 1..(Len(y) - 1) : y[i + 1] - y[i] = d

\* build_latitude_slices has returned for a step of k * d degrees, and no
\* row count, on a grid of spacing d
C12_StepOfRows(k, d) ==
    /\ pc # "partition"
    /\ Uniform(Y, d)
    /\ lat_rows_per_tile <= 0
    /\ lat_step_deg = <<2 * k * d>>

\* C12: on a uniformly spaced Y of spacing d > 0, lat-step-deg = k * d for an
\* integer k >= 1 gives the tile list that lat-rows-per-tile = k gives.
C12_StepEqualsRows ==
    \A k \in 1..MaxStep, d \in 1..MaxRows :
        C12_StepOfRows(k, d) =>
            /\ error = "none"
            /\ partition = build_latitude_slices(Y, lat_tiles, k, NoStep).slices

\* a step of two degrees on a grid of spacing one: two rows per tile
C12_Witness ==
    /\ C12_StepOfRows(2, 1)
    /\ Y = <<5, 6, 7, 8, 9>>
    /\ partition = <<<<5, 6>>, <<7, 8>>, <<9, 9>>>>

(***************************************************************************)
(* C13                                                                      *)
(***************************************************************************)
\* the run got past the checks of the source and of the destination
C13_PastPreconditions ==
    /\ cutout_exists
    /\ store_before.exists => overwrite

\* C13: a run ends either in success, with no diagnostic and exit status 0,
\* or in failure, with exactly one diagnostic line and exit status 1; a
\* missing source, a destination existing without the overwrite flag, a
\* tiling error, a start index out of range and a failing tile each end in
\* failure; no step of a tile is done twice and nothing follows the error.
C13_ExitContract ==
    /\ Exited =>
          \/ exit_status = 0 /\ diagnostics = 0 /\ error = "none"
          \/ exit_status = 1 /\ diagnostics = 1 /\ error # "none"
    /\ ~Exited => (exit_status = -1 /\ diagnostics = 0 /\ ENABLED Next)
    /\ (Exited /\ ~cutout_exists) =>
          (exit_status = 1 /\ error = "FileNotFoundError")
    /\ (Exited /\ cutout_exists /\ store_before.exists /\ ~overwrite) =>
          (exit_status = 1 /\ error = "FileExistsError")
    /\ (Exited /\ C13_PastPreconditions /\ FullPartition.err # "none") =>
          (exit_status = 1 /\ error = FullPartition.err)
    /\ ( /\ Exited
         /\ C13_PastPreconditions
         /\ FullPartition.err = "none"
         /\ FullPartition.slices # <<>>
         /\ (tile_start_index < 0
                \/ tile_start_index >= Len(FullPartition.slices)) ) =>
          (exit_status = 1 /\ error = "tile-start-index is outside")
    /\ (Exited /\ error \in TileErrors) => exit_status = 1
    /\ error # "none" => pc \in {"raised", "exited"}
    /\ \A i, k \in DOMAIN trace :
          (i < k /\ trace[i].ev = trace[k].ev) => trace[i].local < trace[k].local

\* a run that wrote a tile, then failed on the next one and exited
C13_Witness ==
    /\ Exited
    /\ error = "write"
    /\ Len(Writes) = 1
    /\ exit_status = 1
    /\ diagnostics = 1

(***************************************************************************)
(* C14                                                                      *)
(***************************************************************************)
\* C14: when a run fails because the source is missing or because the
\* destination exists without the overwrite flag, no feature preparation
\* (global or per tile), no mask, no transform and no write has been started.
C14_PreconditionErrorsBeforeWork ==
    error \in {"FileNotFoundError", "FileExistsError"} =>
        /\ ~Happened("prepare_global")
        /\ ~Happened("mask")
        /\ NoTileProcessed

(***************************************************************************)
(* C15                                                                      *)
(***************************************************************************)
\* C15: the metadata is consolidated exactly once in a run that appended
\* every selected tile, after the last append and with no write after it,
\* and never in a run that raised or that had nothing to process.
C15_ConsolidateOnceAtEnd ==
    /\ Len(Sel("consolidate")) <= 1
    /\ Happened("consolidate") =>
          /\ trace[Len(trace)].ev = "consolidate"
          /\ lat_slices # <<>>
          /\ Len(Writes) = Len(lat_slices)
          /\ StoreTiles(store) = lat_slices
          /\ store.consolidated
          /\ error = "none"
          /\ pc \in {"returned", "exited"}
    /\ (Exited /\ exit_status = 0 /\ lat_slices # <<>>) =>
          Len(Sel("consolidate")) = 1
    /\ (error # "none" \/ Happened("no_tiles_detected")
           \/ Happened("zero_selection") \/ lat_slices = <<>>) =>
          ~Happened("consolidate")
    /\ (pc \in {"loop", "write"} \/ error \in TileErrors) => ~store.consolidated

\* a run of three tiles that consolidated after the third append
C15_Witness ==
    /\ Exited
    /\ Len(Writes) = 3
    /\ trace[Len(trace)].ev = "consolidate"
    /\ trace[Len(trace) - 1].ev = "write"
    /\ store.consolidated

(***************************************************************************)
(* C16                                                                      *)
(***************************************************************************)
\* the tiles a run with tile-start-index g and no tile count selects
C16_ResumedSelection(g) == SelectSlices(partition, g, 0)

\* C16: the progress line of every processed tile gives a local position l
\* and a global position g with 1 <= l <= selection_size, g =
\* tile-start-index + l and g <= total_tiles; the tile is the g-th of the
\* partition, and a run with tile-start-index = g selects exactly the tiles
\* of the partition above it.
C16_ProgressPositions ==
    \A i \in DOMAIN trace :
        trace[i].ev = "progress" =>
            LET l == trace[i].local
                g == trace[i].g
                resumed == C16_ResumedSelection(g)
            IN  /\ 1 <= l
                /\ l <= Len(lat_slices)
                /\ g = tile_start_index + l
                /\ g <= total_tiles
                /\ trace[i].tile = partition[g]
                /\ Len(resumed) = total_tiles - g
                /\ \A k \in DOMAIN resumed :
                      /\ resumed[k][1] > trace[i].tile[2]
                      /\ resumed[k] = partition[g + k]
                /\ \A k \in DOMAIN partition :
                      partition[k][1] > trace[i].tile[2]
                          => \E m \in DOMAIN resumed : resumed[m] = partition[k]

\* the second tile of a run that started at tile 1 of three
C16_Witness ==
    /\ total_tiles = 3
    /\ tile_start_index = 1
    /\ \E i \in DOMAIN trace :
          /\ trace[i].ev = "progress"
          /\ trace[i].local = 1
          /\ trace[i].g = 2
          /\ C16_ResumedSelection(trace[i].g) = <<partition[3]>>

(***************************************************************************)
(* C17                                                                      *)
(***************************************************************************)
\* C17: the whole-grid preparation runs, once and before everything else,
\* exactly when neither skip-prepare nor prepare-per-tile is set; the
\* preparation of a tile runs, right before the transform of that tile,
\* exactly when prepare-per-tile is set and skip-prepare is not; with
\* skip-prepare nothing is prepared; the two kinds never both occur.
C17_PreparationExclusive ==
    /\ (pc # "start" /\ cutout_exists) =>
          Len(Sel("prepare_global"))
              = (IF ~skip_prepare /\ ~prepare_per_tile THEN 1 ELSE 0)
    /\ Happened("prepare_global") =>
          (trace[1].ev = "prepare_global" /\ cutout_exists)
    /\ (pc = "partition" /\ ~skip_prepare /\ ~prepare_per_tile) =>
          (Happened("prepare_global") /\ partition = <<>>)
    /\ \A i \in DOMAIN trace :
          /\ trace[i].ev = "transform" =>
                ((prepare_per_tile /\ ~skip_prepare)
                    <=> ( /\ trace[i - 1].ev = "prepare_tile"
                          /\ trace[i - 1].local = trace[i].local
                          /\ trace[i - 1].tile = trace[i].tile ))
          /\ trace[i].ev = "prepare_tile" =>
                /\ prepare_per_tile /\ ~skip_prepare
                /\ i < Len(trace)
                /\ trace[i + 1].ev = "transform"
    /\ skip_prepare =>
          (~Happened("prepare_global") /\ ~Happened("prepare_tile"))
    /\ ~(Happened("prepare_global") /\ Happened("prepare_tile"))

\* two tiles prepared one by one, no whole-grid preparation
C17_Witness ==
    /\ Exited
    /\ prepare_per_tile
    /\ ~skip_prepare
    /\ Len(Sel("prepare_tile")) = 2
    /\ Len(Sel("transform")) = 2
    /\ ~Happened("prepare_global")

(***************************************************************************)
(* C18                                                                      *)
(***************************************************************************)
\* build_latitude_slices has returned under the fixed-count policy on a
\* non-empty grid, whatever lat-tiles is
C18_FixedCountPolicy ==
    /\ pc # "partition"
    /\ Len(Y) > 0
    /\ lat_rows_per_tile <= 0
    /\ lat_step_deg = NoStep

\* C18: with lat-tiles = t >= 1 on n > 0 rows there are min(t, n) tiles,
\* each of at least one row, the row counts of two tiles differ by at most 1
\* and never grow along the list; lat-tiles < 1 is a configuration error.
C18_NearEqualChunks ==
    C18_FixedCountPolicy =>
        IF lat_tiles < 1
        THEN /\ error = "lat-tiles must be >= 1"
             /\ pc = "raised"
             /\ partition = <<>>
        ELSE /\ error = "none"
             /\ Len(partition) = Min(lat_tiles, Len(Y))
             /\ \A i \in DOMAIN partition : RowsIn(Y, partition[i]) >= 1
             /\ \A i, k \in DOMAIN partition :
                   i < k =>
                      /\ RowsIn(Y, partition[i]) >= RowsIn(Y, partition[k])
                      /\ RowsIn(Y, partition[i]) - RowsIn(Y, partition[k]) <= 1

\* five rows in three tiles: two, two and one rows
C18_Witness ==
    /\ C18_FixedCountPolicy
    /\ Y = <<5, 6, 7, 8, 9>>
    /\ lat_tiles = 3
    /\ partition = <<<<5, 6>>, <<7, 8>>, <<9, 9>>>>

(***************************************************************************)
(* C19                                                                      *)
(***************************************************************************)
\* the start index has passed the validation of line 236
C19_Validated ==
    \/ pc \in {"loop", "write", "returned"} /\ total_tiles >= 1
    \/ pc \in {"raised", "exited"} /\ Happened("mask")
    \/ Happened("zero_selection")

\* C19: once the start index s is validated against T >= 1 tiles, the
\* selection has min(c, T - s) tiles when tile-count c > 0 and T - s tiles
\* when c <= 0; that is at least one, so the "zero latitude tiles" exit is
\* never taken, the mask is built and at least one tile is attempted.
C19_SelectionNeverEmpty ==
    /\ C19_Validated =>
          /\ 0 <= tile_start_index
          /\ tile_start_index < total_tiles
          /\ Len(lat_slices) = (IF tile_count > 0
                                THEN Min(tile_count, total_tiles - tile_start_index)
                                ELSE total_tiles - tile_start_index)
          /\ Len(lat_slices) >= 1
          /\ Happened("mask")
          /\ pc # "loop" => Happened("progress")
    /\ ~Happened("zero_selection")

\* a negative tile count: every tile from the start index on
C19_Witness ==
    /\ Exited
    /\ exit_status = 0
    /\ tile_count = -1
    /\ tile_start_index = 1
    /\ total_tiles = 3
    /\ Len(lat_slices) = 2
    /\ Len(Writes) = 2

(***************************************************************************)
(* C20                                                                      *)
(***************************************************************************)
\* C20: the destination does not exist when the first tile of a run is
\* written, and after a run that completes the store holds exactly the tiles
\* tile-start-index .. tile-start-index + selection_size - 1 of the
\* partition, each once and in order, all written by this run.
C20_StoreIsThisRunsSelection ==
    /\ (pc = "write" /\ local_idx = 1) => store = Absent
    /\ pc \in {"partition", "select"} => store = Absent
    /\ (Exited /\ exit_status = 0) =>
          /\ StoreTiles(store)
                = SubSeq(FullPartition.slices, tile_start_index + 1,
                         tile_start_index + Len(lat_slices))
          /\ Len(store.tiles) = Len(lat_slices)
          /\ WrittenBy(store, run)
          /\ store.exists = (lat_slices # <<>>)

\* a second invocation with the overwrite flag on the store of the first
C20_Witness ==
    /\ Exited
    /\ exit_status = 0
    /\ run = 2
    /\ store_before.exists
    /\ WrittenBy(store_before, 1)
    /\ Len(store_before.tiles) = 2
    /\ tile_start_index = 2
    /\ Len(store.tiles) = 1
    /\ WrittenBy(store, 2)

====
